---- MODULE Spec2Model ----
(***************************************************************************)
(* A model of src/src/browser/connection.ts: the process-wide session      *)
(* (browser handle + current page), the endpoint resolver                   *)
(* getDebuggerWebSocketUrl with its two probes, the page selector           *)
(* connectToExistingBrowser, the orchestration ensureBrowser, closeBrowser  *)
(* and getCurrentPage.  Every await of the source is a suspension point:    *)
(* a call is a frame with a program counter, and one action runs the        *)
(* synchronous code between two awaits.  The probed HTTP server and the     *)
(* puppeteer collaborator are the environment: they choose how each         *)
(* awaited call settles.                                                    *)
(***************************************************************************)
EXTENDS Integers, Sequences, FiniteSets, TLC

VARIABLES
    browser,      \* connection.ts:8   the held Browser handle (NoHandle = undefined)
    page,         \* connection.ts:9   the current Page (NoPage = undefined)
    handles,      \* every handle puppeteer.connect has produced, by id:
                  \* isConnected(), and whether close() was called on it
    fr,           \* per caller: the frame of its current (or last finished) call
    lastEnsured   \* history: page last returned by ensureBrowser with no
                  \* closeBrowser / connectToExistingBrowser call since

vars == <<browser, page, handles, fr, lastEnsured>>

-----------------------------------------------------------------------------
(* Bounds of the model *)

MaxHandles == 2    \* successful puppeteer.connect calls per behaviour
MaxPages == 2      \* pages a browser exposes

(* Program constants *)

DefaultPort == 9222

-----------------------------------------------------------------------------
(* Values *)

AllTasks == {"caller", "other"}
Callers == {"caller"}          \* serialized calls: one caller, one call at a time

NoHandle == 0

\* URLs are sequences of tokens, so that startsWith is a real prefix test.
ExtensionPrefix == <<"chrome-extension:", "/", "/">>
ExtUrl == <<"chrome-extension:", "/", "/", "abcdef", "/", "popup.html">>
UrlA == <<"https:", "/", "/", "example.com", "/", "a">>
EmptyUrl == <<>>
PageUrls == {ExtUrl, UrlA, EmptyUrl}

\* A Page object: the i-th page of the list handle h returned from pages().
NoPage == [h |-> NoHandle, i |-> 0]

\* The optional targetUrl argument: absent (undefined) or a string.
NoTarget == [given |-> FALSE, url |-> EmptyUrl]
Targets == {NoTarget} \cup {[given |-> TRUE, url |-> u] : u \in {EmptyUrl, ExtUrl, UrlA}}

Ports == {DefaultPort, 9333}
WsUrls == {"ws://127.0.0.1/devtools/browser/A", "ws://localhost/devtools/browser/B"}
Endpoints == {"ws://127.0.0.1/devtools/browser/A"}   \* a caller's wsEndpoint argument
UndefinedField == "undefined"
EmptyString == ""

\* What the probed server can send back once the response headers arrived.
\* The body is never finished ("stall"), is not JSON ("garbage"), or parses to
\* a descriptor ("json") whose webSocketDebuggerUrl is a URL, "" or absent.
Body(state, u) == [state |-> state, webSocketDebuggerUrl |-> u]
Bodies == {Body("stall", UndefinedField), Body("garbage", UndefinedField)} \cup
          {Body("json", u) : u \in WsUrls \cup {UndefinedField, EmptyString}}
Responses == {[ok |-> TRUE, statusText |-> "OK", body |-> b] : b \in Bodies}
             \cup {[ok |-> FALSE, statusText |-> "Not Found",
                    body |-> Body("garbage", UndefinedField)]}
NoResponse == [ok |-> FALSE, statusText |-> "", body |-> Body("garbage", UndefinedField)]

\* Errors: a name and a message (a sequence of string parts).
Err(name, message) == [name |-> name, message |-> message]
NoError == Err("null", <<>>)
AbortError == Err("AbortError", <<"The user aborted a request.">>)
TransportError == Err("FetchError", <<"connect ECONNREFUSED">>)
ParseError == Err("SyntaxError", <<"Unexpected token in JSON">>)
ConnectError == Err("ConnectError", <<"connect failed">>)
RemoteError == Err("ProtocolError", <<"Target closed">>)
TypeError == Err("TypeError", <<"Cannot read properties of undefined">>)

PortStr(port) == CASE port = 9222 -> "9222" [] port = 9333 -> "9333" [] OTHER -> "?"

\* connection.ts:58
StatusError(resp) == Err("Error", <<"Failed to fetch debugger info: ", resp.statusText>>)
\* connection.ts:62
NoUrlError ==
    Err("Error", <<"No WebSocket debugger URL found. Is Chrome running with --remote-debugging-port?">>)
\* connection.ts:71
DiscoveryError(port, last) ==
    Err("Error", <<"Failed to connect to Chrome debugging port ", PortStr(port), ": ">> \o last.message)
\* connection.ts:111
NoActivePageError == Err("Error", <<"No active non-extension pages found in the browser">>)
\* connection.ts:22-26
SetupError ==
    Err("Error", <<"No existing Chrome browser with remote debugging found. ",
                   "Please start Chrome with --remote-debugging-port=9222 and try again. ",
                   "This server no longer launches its own browser instances.">>)

\* A console message of a page: msg.type() and msg.text(); and what the
\* listener made of the last one: the log entry handed to onConsoleMessage.
ConsoleTypes == {"log", "error"}
ConsoleTexts == {"hello"}
NoConsole == [type |-> "", text |-> "", entry |-> <<>>]

\* How a call ended: it returned a page (val), returned a string (str),
\* returned nothing, or threw (err).
Value(v) == [kind |-> "value", val |-> v, str |-> "", err |-> NoError]
StrValue(u) == [kind |-> "value", val |-> NoPage, str |-> u, err |-> NoError]
Void == [kind |-> "void", val |-> NoPage, str |-> "", err |-> NoError]
Thrown(e) == [kind |-> "error", val |-> NoPage, str |-> "", err |-> e]
NoResult == [kind |-> "none", val |-> NoPage, str |-> "", err |-> NoError]

-----------------------------------------------------------------------------
(* Pure pieces of the code *)

\* Variant: the system resolver's name is probed first.
CandidatesLocalhostFirst(port) ==
    << [host |-> "localhost", port |-> port, path |-> "/json/version"],
       [host |-> "127.0.0.1", port |-> port, path |-> "/json/version"] >>

\* connection.ts:47-50  the candidate probe URLs, in order
Candidates(port) ==
    << [host |-> "127.0.0.1", port |-> port, path |-> "/json/version"],
       [host |-> "localhost", port |-> port, path |-> "/json/version"] >>

\* connection.ts:103  url.startsWith(prefix)
StartsWith(s, prefix) ==
    /\ Len(s) >= Len(prefix)
    /\ SubSeq(s, 1, Len(prefix)) = prefix

\* Variant: no page is filtered out.
IsAnyUrl(url) == TRUE

\* connection.ts:103  !url.startsWith('chrome-extension://')
IsActiveUrl(url) == ~StartsWith(url, ExtensionPrefix)

\* connection.ts:61  !data.webSocketDebuggerUrl : absent or "" is falsy
Falsy(u) == u \in {UndefinedField, EmptyString}

\* connection.ts:115  if (targetUrl) : undefined and "" are falsy
TargetGiven(target) == target.given /\ target.url # EmptyUrl

\* Variant: the severity is dropped from the log entry.
FormatTextOnly(type, text) == <<text>>

\* connection.ts:132  `[${msg.type()}] ${msg.text()}`
FormatEntry(type, text) == <<"[", type, "] ", text>>

\* Variant: only the first error is recorded.
KeepFirstError(last, e) == IF last = NoError THEN e ELSE last

\* connection.ts:66  lastError = error
RecordError(last, e) == e

\* Array.prototype.find: index of the first tab with the URL, 0 if none
RECURSIVE FindFrom(_, _, _)
FindFrom(tabs, url, k) ==
    IF k > Len(tabs) THEN 0
    ELSE IF tabs[k].url = url THEN k
    ELSE FindFrom(tabs, url, k + 1)

\* Variant: the target URL is ignored.
SelectFirstTab(tabs, target) == tabs[1].page

\* connection.ts:115-122  the selection policy
SelectPage(tabs, target) ==
    IF TargetGiven(target)
    THEN LET k == FindFrom(tabs, target.url, 1)
         IN  IF k # 0 THEN tabs[k].page ELSE tabs[1].page
    ELSE tabs[1].page

\* Variant: ensureBrowser connects on every call.
NeedsConnectAlways == TRUE

\* connection.ts:12  if (!browser)
NeedsConnect == browser = NoHandle

\* Variant: the negation is lost, a live handle is the one released.
HoldsLiveHandle == browser # NoHandle /\ handles[browser].connected

\* connection.ts:82  browser && !browser.isConnected()
HoldsDeadHandle == browser # NoHandle /\ ~handles[browser].connected

\* connection.ts:34  setTimeout: one more timer is pending
ArmTimer(n) == n + 1

\* Variant: clearTimeout is forgotten.
KeepTimer(n) == n

\* connection.ts:38, 41  clearTimeout(timeout): the attempt's timer, if still
\* pending, is pending no more
ClearTimer(n) == IF n > 0 THEN n - 1 ELSE 0

\* Variant: only the handle is cleared.
ClearedBrowserOnly == [browser |-> NoHandle, page |-> page]

\* connection.ts:146-147 (and 85-86)  browser = undefined; page = undefined
Cleared == [browser |-> NoHandle, page |-> NoPage]

-----------------------------------------------------------------------------
(* Frames *)

NewFrame(op) ==
    [ op |-> op, pc |-> "start",
      \* getDebuggerWebSocketUrl's arguments and locals
      port |-> DefaultPort, idx |-> 0, lastError |-> NoError,
      timer |-> 0,                \* tryFetch timers armed and neither cleared nor fired
      resp |-> NoResponse,
      \* connectToExistingBrowser's arguments and locals
      ws |-> "", targetUrl |-> NoTarget, onConsole |-> FALSE,
      h |-> NoHandle,             \* the handle a pending collaborator call targets
      pages |-> <<>>, i |-> 0, activeTabs |-> <<>>,
      urls |-> <<>>,              \* what url() returned for pages[1..], so far
      listed |-> FALSE,           \* pages() has resolved
      sel |-> NoPage,             \* the page setExtraHTTPHeaders was called on
      listener |-> NoPage,        \* the page this call attached its console listener to
      console |-> NoConsole,      \* the last console event that listener handled
      \* how the call ended
      ret |-> NoResult,
      \* history of the call
      http |-> <<>>,              \* HTTP requests issued, in order
      attempts |-> <<>>,          \* finished probe attempts: the URL probed, the
                                  \* response received (if any), the error caught
      calls |-> <<>>,             \* collaborator calls issued: <<name, handle>>
      held0 |-> browser, page0 |-> page, ensured0 |-> lastEnsured ]

IdleFrame ==
    [ op |-> "none", pc |-> "idle", port |-> DefaultPort, idx |-> 0,
      lastError |-> NoError, timer |-> 0, resp |-> NoResponse,
      ws |-> "", targetUrl |-> NoTarget, onConsole |-> FALSE, h |-> NoHandle,
      pages |-> <<>>, i |-> 0, activeTabs |-> <<>>, urls |-> <<>>, listed |-> FALSE,
      sel |-> NoPage, listener |-> NoPage, console |-> NoConsole,
      ret |-> NoResult, http |-> <<>>, attempts |-> <<>>, calls |-> <<>>,
      held0 |-> NoHandle, page0 |-> NoPage, ensured0 |-> NoPage ]

Init ==
    /\ browser = NoHandle
    /\ page = NoPage
    /\ handles = <<>>
    /\ fr = [t \in AllTasks |-> IdleFrame]
    /\ lastEnsured = NoPage

\* Calls of one caller are serialized: the next starts when the last ended.
CanStart(t) == fr[t].pc \in {"idle", "done"}

\* History: which page ensureBrowser last returned, forgotten as soon as a
\* closeBrowser or a direct connectToExistingBrowser call starts.
Hist(t) ==
    lastEnsured' =
        IF fr'[t].op \in {"closeBrowser", "connectToExistingBrowser"} THEN NoPage
        ELSE IF /\ fr'[t].op = "ensureBrowser"
                /\ fr'[t].pc = "done"
                /\ fr'[t].ret.kind = "value"
                /\ fr'[t].ret.val # NoPage
             THEN fr'[t].ret.val
        ELSE lastEnsured

\* A call ends: it returned or threw.
Finish(f, r) == [f EXCEPT !.pc = "done", !.ret = r, !.resp = NoResponse]

-----------------------------------------------------------------------------
(* connectToExistingBrowser, connection.ts:74-141 *)

Issue(f, name, h) == [f EXCEPT !.calls = Append(@, <<name, h>>)]

\* Variant: ensureBrowser lets the underlying error through.
ThrowUnwrapped(t, f, e) == fr' = [fr EXCEPT ![t] = Finish(f, Thrown(e))]

\* Variant: every error is replaced by the setup error.
ThrowWrapped(t, f, e) == fr' = [fr EXCEPT ![t] = Finish(f, Thrown(SetupError))]

\* connection.ts:138-140 rethrow; inside ensureBrowser the catch of
\* connection.ts:20-26 replaces whatever was thrown by the setup error.
Throw(t, f, e) ==
    fr' = [fr EXCEPT ![t] =
              Finish(f, Thrown(IF f.op = "ensureBrowser" THEN SetupError ELSE e))]

\* connection.ts:91  puppeteer.connect(...) is called; the call awaits it
CallConnect(f) == [Issue(f, "connect", NoHandle) EXCEPT !.pc = "connect"]

\* connection.ts:79-94  up to the first await
ConnectBegin(t, f) ==
    IF HoldsDeadHandle
    THEN \* connection.ts:84  await browser.close()
         /\ fr' = [fr EXCEPT ![t] =
                      [Issue(f, "close", browser) EXCEPT !.pc = "closeOld", !.h = browser]]
         /\ handles' = [handles EXCEPT ![browser].closed = TRUE]
    ELSE /\ fr' = [fr EXCEPT ![t] = CallConnect(f)]
         /\ UNCHANGED handles

\* connection.ts:102  await p.url() on page k
CallUrl(f, k) == [Issue(f, "url", f.pages[k].h) EXCEPT !.pc = "url", !.i = k]

\* Variant: the selection is refused once the enumerated handle is no longer
\* the one held.
AfterLoopIfHeld(t, f) ==
    IF Len(f.activeTabs) = 0 \/ browser # f.h
    THEN /\ Throw(t, f, NoActivePageError)
         /\ UNCHANGED page
    ELSE LET sel == SelectPage(f.activeTabs, f.targetUrl)
         IN  /\ page' = sel
             /\ fr' = [fr EXCEPT ![t] =
                          [Issue(f, "setExtraHTTPHeaders", sel.h)
                              EXCEPT !.pc = "headers", !.sel = sel]]

\* connection.ts:110-127  after the loop: the empty check, the selection, the
\* assignment of page, and the call of setExtraHTTPHeaders
AfterLoop(t, f) ==
    IF Len(f.activeTabs) = 0
    THEN /\ Throw(t, f, NoActivePageError)
         /\ UNCHANGED page
    ELSE LET sel == SelectPage(f.activeTabs, f.targetUrl)
         IN  /\ page' = sel
             /\ fr' = [fr EXCEPT ![t] =
                          [Issue(f, "setExtraHTTPHeaders", sel.h)
                              EXCEPT !.pc = "headers", !.sel = sel]]

\* connection.ts:101  the for loop's step: the next page, or the loop's end
Continue(t, f) ==
    IF f.i < Len(f.pages)
    THEN /\ fr' = [fr EXCEPT ![t] = CallUrl(f, f.i + 1)]
         /\ UNCHANGED page
    ELSE AfterLoop(t, f)

-----------------------------------------------------------------------------
(* getDebuggerWebSocketUrl and tryFetch, connection.ts:32-72 *)

\* connection.ts:33-37  tryFetch(urls[k]): arm the timer, issue the request
StartProbe(f, k) ==
    [f EXCEPT !.idx = k, !.timer = ArmTimer(@), !.pc = "fetch",
              !.http = Append(@, Candidates(f.port)[k])]

\* connection.ts:71  all candidates failed.  ensureBrowser's catch
\* (connection.ts:20-26) replaces the error.
ResolverThrows(t, f) == Throw(t, f, DiscoveryError(f.port, f.lastError))

\* Variant: the fallback is skipped when a session is already held.
HasNextUnlessHeld(f) == f.idx < Len(Candidates(f.port)) /\ browser = NoHandle

\* Variant: the loop ends after the first candidate.
StopsAfterFirst(f) == f.idx < 1

\* connection.ts:54  for (const url of urls): is there a next candidate
HasNextCandidate(f) == f.idx < Len(Candidates(f.port))

\* connection.ts:65-68  the catch: record the error, go on to the next URL
AttemptFails(t, f, resp, e) ==
    LET g == [f EXCEPT !.lastError = RecordError(@, e),
                       !.resp = NoResponse,
                       !.attempts = Append(@, [url |-> Candidates(f.port)[f.idx],
                                                resp |-> resp, reason |-> e])]
    IN  IF HasNextCandidate(f)
        THEN fr' = [fr EXCEPT ![t] = StartProbe(g, f.idx + 1)]
        ELSE ResolverThrows(t, g)

\* connection.ts:64  return data.webSocketDebuggerUrl; inside ensureBrowser
\* (connection.ts:16-17) the URL goes straight to connectToExistingBrowser
ResolverReturns(t, f, u) ==
    LET g == [f EXCEPT !.resp = NoResponse,
                       !.attempts = Append(@, [url |-> Candidates(f.port)[f.idx],
                                                resp |-> f.resp, reason |-> NoError])]
    IN  IF f.op = "ensureBrowser"
        THEN \* the resolver's locals are gone; its URL is wsEndpoint
             ConnectBegin(t, [g EXCEPT !.ws = u, !.idx = 0, !.lastError = NoError,
                                       !.attempts = <<>>])
        ELSE /\ fr' = [fr EXCEPT ![t] = Finish(g, StrValue(u))]
             /\ UNCHANGED handles

\* A caller calls getDebuggerWebSocketUrl(port).
CallGetDebuggerWebSocketUrl(t, port) ==
    /\ CanStart(t)
    /\ fr' = [fr EXCEPT ![t] =
                 StartProbe([NewFrame("getDebuggerWebSocketUrl") EXCEPT !.port = port], 1)]
    /\ Hist(t)
    /\ UNCHANGED <<browser, page, handles>>

\* connection.ts:37-39, 57-60  the response headers arrive: the timer is
\* cleared; a non-OK status throws, otherwise response.json() is awaited
FetchResolves(t, resp) ==
    /\ fr[t].pc = "fetch"
    /\ LET f == [fr[t] EXCEPT !.timer = ClearTimer(@)]
       IN  IF ~resp.ok
           THEN AttemptFails(t, f, resp, StatusError(resp))
           ELSE fr' = [fr EXCEPT ![t] = [f EXCEPT !.resp = resp, !.pc = "json"]]
    /\ Hist(t)
    /\ UNCHANGED <<browser, page, handles>>

\* connection.ts:40-42  fetch rejects with a transport error
FetchRejects(t) ==
    /\ fr[t].pc = "fetch"
    /\ AttemptFails(t, [fr[t] EXCEPT !.timer = ClearTimer(@)], NoResponse, TransportError)
    /\ Hist(t)
    /\ UNCHANGED <<browser, page, handles>>

\* connection.ts:34, 40-42  the timer fires and is no longer pending;
\* controller.abort() rejects the fetch (clearTimeout of a fired timer does
\* nothing)
TimerFires(t) ==
    /\ fr[t].pc = "fetch"
    /\ fr[t].timer > 0
    /\ AttemptFails(t, [fr[t] EXCEPT !.timer = @ - 1], NoResponse, AbortError)
    /\ Hist(t)
    /\ UNCHANGED <<browser, page, handles>>

\* connection.ts:60-64  the body arrived and parsed
JsonResolves(t) ==
    /\ fr[t].pc = "json"
    /\ fr[t].resp.body.state = "json"
    /\ LET u == fr[t].resp.body.webSocketDebuggerUrl
       IN  IF Falsy(u)
           THEN AttemptFails(t, fr[t], fr[t].resp, NoUrlError) /\ UNCHANGED handles
           ELSE ResolverReturns(t, fr[t], u)
    /\ Hist(t)
    /\ UNCHANGED <<browser, page>>

\* connection.ts:60  the body arrived and is not JSON
JsonRejects(t) ==
    /\ fr[t].pc = "json"
    /\ fr[t].resp.body.state = "garbage"
    /\ AttemptFails(t, fr[t], fr[t].resp, ParseError)
    /\ Hist(t)
    /\ UNCHANGED <<browser, page, handles>>

-----------------------------------------------------------------------------
(* connectToExistingBrowser: the awaits, connection.ts:84-137 *)

\* A caller calls connectToExistingBrowser(wsEndpoint, targetUrl, onConsoleMessage).
CallConnectToExistingBrowser(t, ws, target, onConsole) ==
    /\ CanStart(t)
    /\ ConnectBegin(t, [NewFrame("connectToExistingBrowser")
                           EXCEPT !.ws = ws, !.targetUrl = target, !.onConsole = onConsole])
    /\ Hist(t)
    /\ UNCHANGED <<browser, page>>

\* connection.ts:84-91  close() of the dead handle resolved: both globals are
\* cleared, then puppeteer.connect is called
OldCloseResolves(t) ==
    /\ fr[t].pc = "closeOld"
    /\ browser' = Cleared.browser
    /\ page' = Cleared.page
    /\ fr' = [fr EXCEPT ![t] = CallConnect(@)]
    /\ Hist(t)
    /\ UNCHANGED <<handles>>

\* connection.ts:84  close() of the dead handle rejected
OldCloseRejects(t) ==
    /\ fr[t].pc = "closeOld"
    /\ Throw(t, fr[t], RemoteError)
    /\ Hist(t)
    /\ UNCHANGED <<browser, page, handles>>

\* connection.ts:91-98  connect resolved with a new handle, which is stored;
\* browser.pages() is called
ConnectResolves(t) ==
    /\ fr[t].pc = "connect"
    /\ Len(handles) < MaxHandles
    /\ LET h == Len(handles) + 1
       IN  /\ handles' = Append(handles, [connected |-> TRUE, closed |-> FALSE])
           /\ browser' = h
           /\ fr' = [fr EXCEPT ![t] = [Issue(@, "pages", h) EXCEPT !.pc = "pages", !.h = h]]
    /\ Hist(t)
    /\ UNCHANGED <<page>>

\* connection.ts:91  connect rejected: nothing is stored
ConnectRejects(t) ==
    /\ fr[t].pc = "connect"
    /\ Throw(t, fr[t], ConnectError)
    /\ Hist(t)
    /\ UNCHANGED <<browser, page, handles>>

\* connection.ts:98-102  pages() resolved with the browser's n pages, in order
PagesResolves(t, n) ==
    /\ fr[t].pc = "pages"
    /\ Continue(t, [fr[t] EXCEPT !.listed = TRUE,
                                 !.pages = [k \in 1..n |-> [h |-> fr[t].h, i |-> k]]])
    /\ Hist(t)
    /\ UNCHANGED <<browser, handles>>

\* connection.ts:102-104  url() resolved with the page's URL: an extension
\* page is skipped, for any other page title() is called
UrlResolves(t, url) ==
    /\ fr[t].pc = "url"
    /\ LET f == [fr[t] EXCEPT !.urls = Append(@, url)]
       IN  IF IsActiveUrl(url)
           THEN /\ fr' = [fr EXCEPT ![t] =
                             [Issue(f, "title", f.pages[f.i].h) EXCEPT !.pc = "title"]]
                /\ UNCHANGED page
           ELSE Continue(t, f)
    /\ Hist(t)
    /\ UNCHANGED <<browser, handles>>

\* connection.ts:104-106  title() resolved: the tab is pushed
TitleResolves(t) ==
    /\ fr[t].pc = "title"
    /\ LET p == fr[t].pages[fr[t].i]
           f == [fr[t] EXCEPT !.activeTabs =
                                 Append(@, [page |-> p, url |-> fr[t].urls[fr[t].i],
                                            title |-> "title"])]
       IN  Continue(t, f)
    /\ Hist(t)
    /\ UNCHANGED <<browser, handles>>

\* connection.ts:98, 102, 104  pages(), url() or title() rejected
EnumerationRejects(t) ==
    /\ fr[t].pc \in {"pages", "url", "title"}
    /\ Throw(t, fr[t], RemoteError)
    /\ Hist(t)
    /\ UNCHANGED <<browser, page, handles>>

\* connection.ts:125-137  setExtraHTTPHeaders resolved; the listener is
\* attached to the current page if a callback was given; page is returned
HeadersResolves(t) ==
    /\ fr[t].pc = "headers"
    /\ IF fr[t].onConsole /\ page = NoPage
       THEN \* connection.ts:131  page.on of undefined
            Throw(t, fr[t], TypeError)
       ELSE fr' = [fr EXCEPT ![t] =
                      Finish(IF fr[t].onConsole
                             THEN [Issue(@, "on", page.h) EXCEPT !.listener = page]
                             ELSE @,
                             Value(page))]
    /\ Hist(t)
    /\ UNCHANGED <<browser, page, handles>>

\* connection.ts:125  setExtraHTTPHeaders rejected
HeadersRejects(t) ==
    /\ fr[t].pc = "headers"
    /\ Throw(t, fr[t], RemoteError)
    /\ Hist(t)
    /\ UNCHANGED <<browser, page, handles>>

-----------------------------------------------------------------------------
(* ensureBrowser, closeBrowser, getCurrentPage *)

\* connection.ts:11-30  ensureBrowser(): the fast path returns page; otherwise
\* getDebuggerWebSocketUrl(9222) starts with its first probe
CallEnsureBrowser(t) ==
    /\ CanStart(t)
    /\ IF NeedsConnect
       THEN fr' = [fr EXCEPT ![t] = StartProbe(NewFrame("ensureBrowser"), 1)]
       ELSE fr' = [fr EXCEPT ![t] = Finish(NewFrame("ensureBrowser"), Value(page))]
    /\ Hist(t)
    /\ UNCHANGED <<browser, page, handles>>

\* connection.ts:143-145  closeBrowser(): close() is called on a held handle
CallCloseBrowser(t) ==
    /\ CanStart(t)
    /\ IF browser # NoHandle
       THEN /\ fr' = [fr EXCEPT ![t] =
                         [Issue(NewFrame("closeBrowser"), "close", browser)
                             EXCEPT !.pc = "closing", !.h = browser]]
            /\ handles' = [handles EXCEPT ![browser].closed = TRUE]
       ELSE /\ fr' = [fr EXCEPT ![t] = Finish(NewFrame("closeBrowser"), Void)]
            /\ UNCHANGED handles
    /\ Hist(t)
    /\ UNCHANGED <<browser, page>>

\* connection.ts:145-147  close() resolved: both globals are cleared
CloseResolves(t) ==
    /\ fr[t].pc \in {"closing"}
    /\ browser' = Cleared.browser
    /\ page' = Cleared.page
    /\ handles' = [handles EXCEPT ![fr[t].h].connected = FALSE]
    /\ fr' = [fr EXCEPT ![t] = Finish(@, Void)]
    /\ Hist(t)

\* connection.ts:145  close() rejected: the globals stay as they are
CloseRejects(t) ==
    /\ fr[t].pc = "closing"
    /\ fr' = [fr EXCEPT ![t] = Finish(@, Thrown(RemoteError))]
    /\ Hist(t)
    /\ UNCHANGED <<browser, page, handles>>

\* connection.ts:151-153  getCurrentPage()
CallGetCurrentPage(t) ==
    /\ CanStart(t)
    /\ fr' = [fr EXCEPT ![t] = Finish(NewFrame("getCurrentPage"), Value(page))]
    /\ Hist(t)
    /\ UNCHANGED <<browser, page, handles>>

\* connection.ts:131-134  the page a call attached its listener to emits a
\* console message: the listener formats it and calls onConsoleMessage
ConsoleEvent(t, type, text) ==
    /\ fr[t].pc = "done"
    /\ fr[t].listener # NoPage
    /\ handles[fr[t].listener.h].connected
    /\ fr' = [fr EXCEPT ![t].console =
                 [type |-> type, text |-> text, entry |-> FormatEntry(type, text)]]
    /\ UNCHANGED <<browser, page, handles, lastEnsured>>

\* The environment: the held handle loses its connection (the browser exits
\* or the socket drops), so that isConnected() turns false.
Disconnect ==
    /\ browser # NoHandle
    /\ handles[browser].connected
    /\ handles' = [handles EXCEPT ![browser].connected = FALSE]
    /\ UNCHANGED <<browser, page, fr, lastEnsured>>

-----------------------------------------------------------------------------

Next ==
    \/ \E t \in Callers : CallEnsureBrowser(t)
    \/ \E t \in Callers, port \in Ports : CallGetDebuggerWebSocketUrl(t, port)
    \/ \E t \in Callers, ws \in Endpoints, target \in Targets, onConsole \in BOOLEAN :
          CallConnectToExistingBrowser(t, ws, target, onConsole)
    \/ \E t \in Callers : CallCloseBrowser(t)
    \/ \E t \in Callers : CallGetCurrentPage(t)
    \/ \E t \in Callers, resp \in Responses : FetchResolves(t, resp)
    \/ \E t \in Callers : FetchRejects(t)
    \/ \E t \in Callers : TimerFires(t)
    \/ \E t \in Callers : JsonResolves(t)
    \/ \E t \in Callers : JsonRejects(t)
    \/ \E t \in Callers : OldCloseResolves(t)
    \/ \E t \in Callers : OldCloseRejects(t)
    \/ \E t \in Callers : ConnectResolves(t)
    \/ \E t \in Callers : ConnectRejects(t)
    \/ \E t \in Callers, n \in 0..MaxPages : PagesResolves(t, n)
    \/ \E t \in Callers, url \in PageUrls : UrlResolves(t, url)
    \/ \E t \in Callers : TitleResolves(t)
    \/ \E t \in Callers : EnumerationRejects(t)
    \/ \E t \in Callers : HeadersResolves(t)
    \/ \E t \in Callers : HeadersRejects(t)
    \/ \E t \in Callers : CloseResolves(t)
    \/ \E t \in Callers : CloseRejects(t)
    \/ \E t \in Callers, type \in ConsoleTypes, text \in ConsoleTexts :
          ConsoleEvent(t, type, text)
    \/ Disconnect

Spec == Init /\ [][Next]_vars

\* The event loop runs whatever is runnable: a settled await is resumed, a
\* pending timer fires.
SpecFair == Spec /\ WF_vars(Next)

-----------------------------------------------------------------------------
(* Unserialized callers: one caller runs connectToExistingBrowser while       *)
(* another runs closeBrowser.  Each call is suspended at its awaits, and the  *)
(* event loop may run the other call's code in between.  The connect calls   *)
(* name no target URL, and a handle loses its connection only by close().    *)

Connector == "caller"
Closer == "other"

NextConcurrent ==
    \/ \E ws \in Endpoints, onConsole \in BOOLEAN :
          CallConnectToExistingBrowser(Connector, ws, NoTarget, onConsole)
    \/ ConnectResolves(Connector)
    \/ ConnectRejects(Connector)
    \/ \E n \in 0..MaxPages : PagesResolves(Connector, n)
    \/ \E url \in PageUrls : UrlResolves(Connector, url)
    \/ TitleResolves(Connector)
    \/ EnumerationRejects(Connector)
    \/ HeadersResolves(Connector)
    \/ HeadersRejects(Connector)
    \/ CallCloseBrowser(Closer)
    \/ CloseResolves(Closer)
    \/ CloseRejects(Closer)

SpecConcurrent == Init /\ [][NextConcurrent]_vars

-----------------------------------------------------------------------------
(* Properties *)

\* C1: once an ensureBrowser call has returned a page, every later
\* ensureBrowser call with no closeBrowser or connectToExistingBrowser call in
\* between ends at once, returns that same page, and issues no HTTP request
\* and no collaborator call (no connect, pages, url, title).
C1_IdempotentFastPath ==
    \A t \in AllTasks :
        (fr[t].op = "ensureBrowser" /\ fr[t].ensured0 # NoPage)
            => /\ fr[t].pc = "done"
               /\ fr[t].ret = Value(fr[t].ensured0)
               /\ fr[t].http = <<>>
               /\ fr[t].calls = <<>>

\* C1 witness: a second ensureBrowser call has returned after an earlier one
\* returned a page.
C1_Witness ==
    \E t \in AllTasks :
        /\ fr[t].op = "ensureBrowser"
        /\ fr[t].pc = "done"
        /\ fr[t].ensured0 # NoPage
        /\ fr[t].ret.kind = "value"

\* C2 (as claimed): an ensureBrowser call that started with no handle held
\* and failed leaves no browser handle and no current page behind.
C2_FailedEnsureLeavesUnbound ==
    \A t \in AllTasks :
        (/\ fr[t].op = "ensureBrowser"
         /\ fr[t].pc = "done"
         /\ fr[t].held0 = NoHandle
         /\ fr[t].ret.kind = "error")
            => (browser = NoHandle /\ page = NoPage)

\* C3 (as claimed): every handle obtained from puppeteer.connect is the one
\* currently held or has had close() called on it.
C3_AtMostOneOpenHandle ==
    \A h \in 1..Len(handles) : h = browser \/ handles[h].closed

\* C4 (as claimed): every getDebuggerWebSocketUrl call that has started
\* eventually returns or throws, whatever the probed server does.
C4_DiscoveryTerminates ==
    \A t \in AllTasks :
        (fr[t].op = "getDebuggerWebSocketUrl" /\ fr[t].pc # "done")
            ~> (fr[t].pc = "done")

\* An OK response whose descriptor has a webSocketDebuggerUrl.
GoodResponse(r) ==
    /\ r.ok
    /\ r.body.state = "json"
    /\ r.body.webSocketDebuggerUrl \notin {UndefinedField, EmptyString}

ProbeUrl(host, port) == [host |-> host, port |-> port, path |-> "/json/version"]

\* part occurs in msg as a run of consecutive elements
Contains(msg, part) ==
    \E k \in 1..(Len(msg) - Len(part) + 1) : SubSeq(msg, k, k + Len(part) - 1) = part

\* C5: the first HTTP request of a discovery goes to 127.0.0.1 and the second,
\* if any, to localhost, made only after the 127.0.0.1 attempt failed; when
\* the 127.0.0.1 probe yields an OK response with a webSocketDebuggerUrl the
\* call has returned exactly that URL after exactly one request.
C5_CandidateOrder ==
    \A t \in AllTasks :
        LET f == fr[t] IN
        /\ Len(f.http) <= 2
        /\ Len(f.http) >= 1 => f.http[1] = ProbeUrl("127.0.0.1", f.port)
        /\ Len(f.http) = 2 => f.http[2] = ProbeUrl("localhost", f.port)
        /\ (f.op = "getDebuggerWebSocketUrl" /\ Len(f.http) = 2)
              => /\ Len(f.attempts) >= 1
                 /\ f.attempts[1].url.host = "127.0.0.1"
                 /\ f.attempts[1].reason # NoError
        /\ (/\ f.op = "getDebuggerWebSocketUrl"
            /\ Len(f.attempts) >= 1
            /\ GoodResponse(f.attempts[1].resp))
              => /\ f.pc = "done"
                 /\ f.ret = StrValue(f.attempts[1].resp.body.webSocketDebuggerUrl)
                 /\ Len(f.http) = 1

\* C5 witness: a discovery has returned from its 127.0.0.1 probe.
C5_Witness ==
    \E t \in AllTasks :
        /\ fr[t].op = "getDebuggerWebSocketUrl"
        /\ fr[t].pc = "done"
        /\ Len(fr[t].attempts) = 1
        /\ GoodResponse(fr[t].attempts[1].resp)
        /\ fr[t].ret.kind = "value"

\* C6: whichever way the 127.0.0.1 attempt failed, the localhost candidate
\* has been probed next, and a discovery that ended after both attempts
\* returned the localhost descriptor's URL if that attempt succeeded and
\* threw otherwise.
C6_UniformFallthrough ==
    \A t \in AllTasks :
        LET f == fr[t] IN
        f.op = "getDebuggerWebSocketUrl" =>
            /\ (Len(f.attempts) >= 1 /\ f.attempts[1].reason # NoError)
                  => (Len(f.http) = 2 /\ f.http[2].host = "localhost")
            /\ (f.pc = "done" /\ Len(f.attempts) = 2)
                  => IF GoodResponse(f.attempts[2].resp)
                     THEN f.ret = StrValue(f.attempts[2].resp.body.webSocketDebuggerUrl)
                     ELSE f.ret.kind = "error"

\* C6 witness: the 127.0.0.1 attempt timed out and the localhost attempt's
\* URL was returned.
C6_Witness ==
    \E t \in AllTasks :
        /\ fr[t].op = "getDebuggerWebSocketUrl"
        /\ fr[t].pc = "done"
        /\ Len(fr[t].attempts) = 2
        /\ fr[t].attempts[1].reason.name = "AbortError"
        /\ fr[t].ret.kind = "value"

\* C7: a discovery throws only after both candidates were tried and failed,
\* and then at once; the message holds the requested port and the reason of
\* the localhost attempt, not the (different) reason of the 127.0.0.1 attempt.
C7_DiscoveryErrorMessage ==
    \A t \in AllTasks :
        LET f == fr[t] IN
        f.op = "getDebuggerWebSocketUrl" =>
            /\ (Len(f.attempts) = 2 /\ f.attempts[2].reason # NoError)
                  => (f.pc = "done" /\ f.ret.kind = "error")
            /\ (f.pc = "done" /\ f.ret.kind = "error")
                  => /\ Len(f.http) = 2
                     /\ Len(f.attempts) = 2
                     /\ f.attempts[1].reason # NoError
                     /\ f.attempts[2].reason # NoError
                     /\ Contains(f.ret.err.message, <<PortStr(f.port)>>)
                     /\ Contains(f.ret.err.message, f.attempts[2].reason.message)
                     /\ f.attempts[1].reason # f.attempts[2].reason
                           => ~Contains(f.ret.err.message, f.attempts[1].reason.message)

\* C7 witness: a discovery on the non-default port has thrown after two
\* attempts that failed for different reasons.
C7_Witness ==
    \E t \in AllTasks :
        /\ fr[t].op = "getDebuggerWebSocketUrl"
        /\ fr[t].pc = "done"
        /\ fr[t].ret.kind = "error"
        /\ fr[t].port # DefaultPort
        /\ fr[t].attempts[1].reason # fr[t].attempts[2].reason

\* A URL of the extension scheme, chrome-extension://...
IsExtensionUrl(u) ==
    /\ Len(u) >= 3
    /\ u[1] = "chrome-extension:"
    /\ u[2] = "/"
    /\ u[3] = "/"

Least(S) == CHOOSE k \in S : \A j \in S : k <= j

\* The pages of a finished enumeration that are not extension pages.
NonExtension(f) == {k \in 1..Len(f.urls) : ~IsExtensionUrl(f.urls[k])}

\* The selection as claimed: the first non-extension page whose URL equals a
\* given target URL, else the first non-extension page.
ClaimedSelection(f) ==
    LET M == {k \in NonExtension(f) : f.targetUrl.given /\ f.urls[k] = f.targetUrl.url}
    IN  IF M # {} THEN f.pages[Least(M)] ELSE f.pages[Least(NonExtension(f))]

\* The selection as amended: an empty target URL counts as no target URL.
AmendedSelection(f) ==
    LET M == {k \in NonExtension(f) :
                 /\ f.targetUrl.given
                 /\ f.targetUrl.url # EmptyUrl
                 /\ f.urls[k] = f.targetUrl.url}
    IN  IF M # {} THEN f.pages[Least(M)] ELSE f.pages[Least(NonExtension(f))]

ConnectSucceeded(f) ==
    /\ f.op = "connectToExistingBrowser"
    /\ f.pc = "done"
    /\ f.ret.kind = "value"

\* C8 (as claimed): a successful connectToExistingBrowser returns the first
\* non-extension page whose URL equals the target URL, for every target URL
\* given, and the first non-extension page when none is given or none matches.
C8_SelectionAsClaimed ==
    \A t \in AllTasks : ConnectSucceeded(fr[t]) => fr[t].ret.val = ClaimedSelection(fr[t])

\* C8 (amended): a successful connectToExistingBrowser returns the first
\* non-extension page whose URL equals the target URL when a non-empty target
\* URL is given; when no target URL is given, when it is the empty string, or
\* when no non-extension page's URL equals it, the first non-extension page.
C8_SelectionPolicy ==
    \A t \in AllTasks : ConnectSucceeded(fr[t]) => fr[t].ret.val = AmendedSelection(fr[t])

\* C8 witness: a call with a target URL returned a matching page that is not
\* the first non-extension page.
C8_Witness ==
    \E t \in AllTasks :
        /\ ConnectSucceeded(fr[t])
        /\ fr[t].targetUrl.given
        /\ fr[t].urls[fr[t].ret.val.i] = fr[t].targetUrl.url
        /\ fr[t].ret.val.i # Least(NonExtension(fr[t]))

\* C9: the page a call selects is a page of its enumeration whose URL is not
\* an extension URL; a successful connectToExistingBrowser returns the page
\* it selected; the current page is only ever the one held when the call
\* started, none, or the page the call selected; and a call whose enumeration
\* finished with no page or only extension pages threw the no-active-page
\* error, whatever the target URL.
C9_ExtensionNeverSelected ==
    \A t \in AllTasks :
        LET f == fr[t] IN
        /\ f.sel # NoPage
              => /\ f.sel.h = f.h
                 /\ f.sel.i \in 1..Len(f.urls)
                 /\ ~IsExtensionUrl(f.urls[f.sel.i])
        /\ ConnectSucceeded(f) => (f.sel # NoPage /\ f.ret.val = f.sel)
        /\ f.op # "none" => page \in {f.page0, NoPage, f.sel}
        /\ (/\ f.op = "connectToExistingBrowser"
            /\ f.pc = "done"
            /\ f.listed
            /\ Len(f.urls) = Len(f.pages)
            /\ \A k \in 1..Len(f.urls) : IsExtensionUrl(f.urls[k]))
              => f.ret = Thrown(NoActivePageError)

\* C9 witness: a call whose target URL is the URL of an extension page of the
\* browser returned a page.
C9_Witness ==
    \E t \in AllTasks :
        /\ ConnectSucceeded(fr[t])
        /\ fr[t].targetUrl.given
        /\ IsExtensionUrl(fr[t].targetUrl.url)
        /\ \E k \in 1..Len(fr[t].urls) : fr[t].urls[k] = fr[t].targetUrl.url

\* C10: a closeBrowser call that started with a handle held and returned has
\* called close() once, on that handle, and left no handle and no current
\* page; one that started with no handle held returned at once with no
\* collaborator call and the session as it was; and an ensureBrowser call that
\* starts with no handle held probes again and returns only a page it has
\* selected from a new enumeration.
C10_ExplicitTeardown ==
    \A t \in AllTasks :
        LET f == fr[t] IN
        /\ (f.op = "closeBrowser" /\ f.held0 # NoHandle /\ f.pc = "done" /\ f.ret.kind = "void")
              => /\ f.calls = << <<"close", f.held0>> >>
                 /\ handles[f.held0].closed
                 /\ browser = NoHandle
                 /\ page = NoPage
        /\ (f.op = "closeBrowser" /\ f.held0 = NoHandle)
              => /\ f.pc = "done"
                 /\ f.ret = Void
                 /\ f.calls = <<>>
                 /\ f.http = <<>>
                 /\ browser = NoHandle
                 /\ page = f.page0
        /\ (f.op = "ensureBrowser" /\ f.held0 = NoHandle)
              => /\ Len(f.http) >= 1
                 /\ (f.pc = "done" /\ f.ret.kind = "value")
                       => (f.listed /\ f.sel # NoPage /\ f.ret.val = f.sel)

\* C10 witness: a closeBrowser call has returned that started with a handle
\* and a current page held.
C10_Witness ==
    \E t \in AllTasks :
        /\ fr[t].op = "closeBrowser"
        /\ fr[t].pc = "done"
        /\ fr[t].ret.kind = "void"
        /\ fr[t].held0 # NoHandle
        /\ fr[t].page0 # NoPage

\* The collaborator calls a call has issued, by name.
CallNames(f) == {f.calls[k][1] : k \in 1..Len(f.calls)}

\* The name of the last collaborator call a call issued ("" if none).
LastCall(f) == IF Len(f.calls) = 0 THEN "" ELSE f.calls[Len(f.calls)][1]

\* C11: an ensureBrowser call that ended with an error started with no handle
\* held and threw the setup error, which names port 9222, whichever step
\* failed: never the discovery error, the connect error, the no-active-page
\* error or a collaborator's error; and the only collaborator calls an
\* ensureBrowser call issues are connect, pages, url, title and
\* setExtraHTTPHeaders: no browser is launched.
C11_SetupErrorOnly ==
    \A t \in AllTasks :
        LET f == fr[t] IN
        f.op = "ensureBrowser" =>
            /\ (f.pc = "done" /\ f.ret.kind = "error")
                  => /\ f.ret.err = SetupError
                     /\ Contains(f.ret.err.message,
                                 <<"Please start Chrome with --remote-debugging-port=9222 and try again. ">>)
                     /\ f.held0 = NoHandle
            /\ CallNames(f) \subseteq {"connect", "pages", "url", "title", "setExtraHTTPHeaders"}

\* C11 witness: an ensureBrowser call has failed after its page selection,
\* while the header was applied.
C11_Witness ==
    \E t \in AllTasks :
        /\ fr[t].op = "ensureBrowser"
        /\ fr[t].pc = "done"
        /\ fr[t].ret.kind = "error"
        /\ LastCall(fr[t]) = "setExtraHTTPHeaders"

\* No call is in progress: every caller is between calls.
Quiescent == \A t \in AllTasks : fr[t].pc \in {"idle", "done"}

\* C12 (as claimed): between serialized calls the session holds either no
\* handle and no current page, or a handle and a current page; and an
\* ensureBrowser call that returned normally returned a page, not undefined.
C12_TwoStateInvariant ==
    /\ Quiescent => ((browser = NoHandle) <=> (page = NoPage))
    /\ \A t \in AllTasks :
          (fr[t].op = "ensureBrowser" /\ fr[t].pc = "done" /\ fr[t].ret.kind = "value")
              => fr[t].ret.val # NoPage

\* Caller t starts a connectToExistingBrowser call in this step.
StartsConnect(t) ==
    /\ fr[t].pc \in {"idle", "done"}
    /\ fr'[t].pc \notin {"idle", "done"}
    /\ fr'[t].op = "connectToExistingBrowser"

\* A connectToExistingBrowser call that began by releasing the held handle.
ReleasedOld(f) ==
    /\ f.op = "connectToExistingBrowser"
    /\ Len(f.calls) >= 1
    /\ f.calls[1] = <<"close", f.held0>>

\* The step of C13: a call starting while the held handle is disconnected
\* calls close() on that handle first, and nothing else.
C13_ReleaseStep ==
    \A t \in AllTasks :
        (StartsConnect(t) /\ browser # NoHandle /\ ~handles[browser].connected)
            => /\ fr'[t].held0 = browser
               /\ fr'[t].calls = << <<"close", browser>> >>
               /\ handles'[browser].closed

\* The states of C13: once such a call has invoked puppeteer.connect, the old
\* handle is closed, and while connect is pending and after it has failed
\* the session holds no handle and no page.
C13_ReleasedBeforeConnect ==
    \A t \in AllTasks :
        LET f == fr[t] IN
        ReleasedOld(f) =>
            /\ "connect" \in CallNames(f) => (Len(f.calls) >= 2 /\ f.calls[2][1] = "connect"
                                               /\ handles[f.held0].closed)
            /\ f.pc = "connect" => (browser = NoHandle /\ page = NoPage)
            /\ (f.pc = "done" /\ LastCall(f) = "connect")
                  => (f.ret.kind = "error" /\ browser = NoHandle /\ page = NoPage)

\* C13: when connectToExistingBrowser starts while the held handle reports
\* itself disconnected, close() is called on that handle and both the handle
\* and the current page are cleared before puppeteer.connect is invoked; if
\* that connect fails the session is left with no handle and no page.
C13_ReleaseOfDeadHandle == [][C13_ReleaseStep]_vars /\ []C13_ReleasedBeforeConnect

\* C13 witness: a call released a disconnected handle that came with a
\* current page, its connect failed, and the call has ended.
C13_Witness ==
    \E t \in AllTasks :
        /\ ReleasedOld(fr[t])
        /\ fr[t].page0 # NoPage
        /\ fr[t].pc = "done"
        /\ LastCall(fr[t]) = "connect"
        /\ fr[t].ret.kind = "error"

\* A connectToExistingBrowser call whose puppeteer.connect rejected: connect is
\* the last collaborator call it issued, and it has ended.
ConnectFailed(f) ==
    /\ f.op = "connectToExistingBrowser"
    /\ f.pc = "done"
    /\ LastCall(f) = "connect"

\* C14: a connectToExistingBrowser call whose puppeteer.connect raised an
\* error has thrown exactly that error, has made no pages, url, title,
\* setExtraHTTPHeaders or on call, and, unless it first released a
\* disconnected handle, has left the held handle and the current page as
\* they were when it started.
C14_ConnectErrorUnchanged ==
    \A t \in AllTasks :
        LET f == fr[t] IN
        ConnectFailed(f) =>
            /\ f.ret = Thrown(ConnectError)
            /\ CallNames(f) \cap {"pages", "url", "title", "setExtraHTTPHeaders", "on"} = {}
            /\ ~ReleasedOld(f) => (browser = f.held0 /\ page = f.page0)

\* C14 witness: connect failed in a call that started with a connected
\* handle and a current page held.
C14_Witness ==
    \E t \in AllTasks :
        /\ ConnectFailed(fr[t])
        /\ ~ReleasedOld(fr[t])
        /\ fr[t].held0 # NoHandle
        /\ fr[t].page0 # NoPage
        /\ browser = fr[t].held0

\* A connectToExistingBrowser call that did not release a disconnected handle
\* and failed at the empty-list check or while the header was applied.
FailedBeforeCommit(f) ==
    /\ f.op = "connectToExistingBrowser"
    /\ f.pc = "done"
    /\ f.ret.kind = "error"
    /\ ~ReleasedOld(f)
    /\ \/ f.ret.err = NoActivePageError
       \/ LastCall(f) = "setExtraHTTPHeaders"

\* C15 (as claimed): the current page changes only when the call returns:
\* while the header is being applied the current page is still the one
\* from before the call, and a call that failed at the empty-list check or
\* while applying the header has left the current page as it was.
C15_CommitIsLast ==
    \A t \in AllTasks :
        LET f == fr[t] IN
        /\ (f.op = "connectToExistingBrowser" /\ f.pc = "headers" /\ ~ReleasedOld(f))
              => page = f.page0
        /\ FailedBeforeCommit(f) => page = f.page0

\* C16 (as claimed): between serialized calls, when the session holds a
\* handle and a current page, the page is one of the pages enumerated from
\* that handle; and the page an ensureBrowser call returns on its fast path
\* belongs to the handle held.
C16_PageOfCurrentHandle ==
    /\ (Quiescent /\ browser # NoHandle /\ page # NoPage) => page.h = browser
    /\ \A t \in AllTasks :
          (/\ fr[t].op = "ensureBrowser"
           /\ fr[t].pc = "done"
           /\ fr[t].held0 # NoHandle
           /\ fr[t].ret.kind = "value"
           /\ fr[t].ret.val # NoPage)
              => fr[t].ret.val.h = fr[t].held0

\* A connectToExistingBrowser call suspended at an await that follows the
\* storing of the new handle.
SuspendedAfterStore(f) ==
    /\ f.op = "connectToExistingBrowser"
    /\ f.pc \in {"pages", "url", "title", "headers"}

\* A closeBrowser call runs to completion while the connect call is suspended
\* after the store: both globals are cleared, the suspended call is neither
\* cancelled nor changed.
C17_TeardownStep ==
    (/\ SuspendedAfterStore(fr[Connector])
     /\ fr[Closer].pc = "closing"
     /\ fr'[Closer].pc = "done"
     /\ fr'[Closer].ret = Void)
        => /\ browser' = NoHandle
           /\ page' = NoPage
           /\ fr'[Connector] = fr[Connector]

\* The resumed connect call completes its remaining steps whatever the held
\* handle has become: the loop's end with an eligible page stores the
\* selection, and the return hands out the current page as it then is.
C17_ResumeStep ==
    LET f == fr[Connector]
        g == fr'[Connector]
    IN  /\ (/\ SuspendedAfterStore(f)
            /\ f.pc # "headers"
            /\ g.pc = "done")
              => (g.ret.err = RemoteError \/ Len(g.activeTabs) = 0)
        /\ (/\ SuspendedAfterStore(f)
            /\ f.pc # "headers"
            /\ g.pc = "headers")
              => (g.sel # NoPage /\ page' = g.sel /\ browser' = browser)
        /\ (/\ f.pc = "headers"
            /\ g.pc = "done"
            /\ g.ret.kind = "value")
              => (g.ret.val = page /\ page' = page /\ browser' = browser)

\* C17: when closeBrowser completes while a connectToExistingBrowser call is
\* suspended at pages(), url(), title() or setExtraHTTPHeaders(), the session
\* is cleared under the suspended call, which on resuming still stores its
\* selection and returns the current page without looking at the handle.
C17_NonAtomicSelection == [][C17_TeardownStep /\ C17_ResumeStep]_vars

\* C17 witness: both calls have ended, closeBrowser normally; no handle is
\* held, yet a current page is stored, which the connect call returned and
\* whose handle has been closed.
C17_Witness ==
    /\ Quiescent
    /\ fr[Closer].op = "closeBrowser"
    /\ fr[Closer].ret = Void
    /\ fr[Closer].held0 # NoHandle
    /\ fr[Connector].op = "connectToExistingBrowser"
    /\ fr[Connector].ret.kind = "value"
    /\ browser = NoHandle
    /\ page # NoPage
    /\ fr[Connector].ret.val = page
    /\ handles[page.h].closed
    /\ ~handles[page.h].connected

\* C18: a probe's timer is pending only while its fetch is awaited: once
\* tryFetch has completed, with a response or with an error, no timer is
\* pending; a call never has more than one timer pending; and none is
\* pending after the call has ended.
C18_NoLeakedTimer ==
    \A t \in AllTasks :
        LET f == fr[t] IN
        /\ f.timer \in {0, 1}
        /\ f.pc # "fetch" => f.timer = 0
        /\ f.pc = "fetch" => (f.timer = 1 /\ Len(f.attempts) = f.idx - 1)

\* C18 witness: a discovery has ended after one attempt in which fetch
\* yielded a response and one in which it raised.
C18_Witness ==
    \E t \in AllTasks :
        /\ fr[t].op = "getDebuggerWebSocketUrl"
        /\ fr[t].pc = "done"
        /\ Len(fr[t].attempts) = 2
        /\ fr[t].attempts[1].resp # NoResponse
        /\ fr[t].attempts[2].reason \in {TransportError, AbortError}
        /\ fr[t].timer = 0

\* What the probed server did in one attempt decides how the attempt ends:
\* the reasons an attempt with this response (or with none) can fail with,
\* NoError standing for success.
ReasonsOf(resp) ==
    IF resp = NoResponse THEN {TransportError, AbortError}
    ELSE IF ~resp.ok THEN {StatusError(resp)}
    ELSE IF resp.body.state = "garbage" THEN {ParseError}
    ELSE IF resp.body.webSocketDebuggerUrl \in {UndefinedField, EmptyString} THEN {NoUrlError}
    ELSE {NoError}

\* The outcome of a discovery, from its port and what the server did alone.
OutcomeOf(port, attempts) ==
    LET last == attempts[Len(attempts)]
    IN  IF last.reason = NoError
        THEN StrValue(last.resp.body.webSocketDebuggerUrl)
        ELSE Thrown(DiscoveryError(port, last.reason))

\* C19: a getDebuggerWebSocketUrl call issues no collaborator call and leaves
\* the held handle and the current page as they were; every attempt ends as
\* the server's behaviour in that attempt dictates and the call's outcome is
\* a function of its port and the server's behaviour, whatever the session
\* holds; and an ensureBrowser call whose discovery failed has thrown without
\* a puppeteer.connect call, the session as it was.
C19_ResolverStateless ==
    \A t \in AllTasks :
        LET f == fr[t] IN
        /\ f.op = "getDebuggerWebSocketUrl" =>
              /\ browser = f.held0
              /\ page = f.page0
              /\ f.calls = <<>>
              /\ \A k \in 1..Len(f.attempts) :
                    /\ f.attempts[k].reason \in ReasonsOf(f.attempts[k].resp)
                    /\ k < Len(f.attempts) => f.attempts[k].reason # NoError
              /\ f.pc = "done" =>
                    /\ Len(f.attempts) \in {1, 2}
                    /\ Len(f.attempts) = 1 => f.attempts[1].reason = NoError
                    /\ f.ret = OutcomeOf(f.port, f.attempts)
        /\ (/\ f.op = "ensureBrowser"
            /\ Len(f.attempts) = 2
            /\ f.attempts[2].reason # NoError)
              => /\ f.pc = "done"
                 /\ f.ret.kind = "error"
                 /\ f.calls = <<>>
                 /\ browser = f.held0
                 /\ page = f.page0

\* C19 witness: with a handle and a current page held, a discovery has failed
\* on both candidates and thrown.
C19_Witness ==
    \E t \in AllTasks :
        /\ fr[t].op = "getDebuggerWebSocketUrl"
        /\ fr[t].pc = "done"
        /\ fr[t].held0 # NoHandle
        /\ fr[t].page0 # NoPage
        /\ Len(fr[t].attempts) = 2
        /\ fr[t].ret.kind = "error"

\* How many of a call's collaborator calls have the given name.
CountCalls(f, name) == Cardinality({k \in 1..Len(f.calls) : f.calls[k][1] = name})

\* C20: a connectToExistingBrowser call given a console callback that
\* returned has attached exactly one listener, to the page it selected and
\* returned, as its last collaborator call, right after setExtraHTTPHeaders;
\* every console event that listener handled reached the callback as
\* "[", type, "] ", text; and a call given no callback, a call that has not
\* returned normally, and every ensureBrowser call has attached no listener.
C20_ConsoleWiring ==
    \A t \in AllTasks :
        LET f == fr[t]
            n == Len(f.calls)
        IN  /\ (ConnectSucceeded(f) /\ f.onConsole)
                  => /\ CountCalls(f, "on") = 1
                     /\ f.listener = f.sel
                     /\ f.listener = f.ret.val
                     /\ f.calls[n] = <<"on", f.sel.h>>
                     /\ f.calls[n - 1] = <<"setExtraHTTPHeaders", f.sel.h>>
            /\ f.console # NoConsole
                  => /\ f.listener # NoPage
                     /\ f.console.entry = <<"[", f.console.type, "] ", f.console.text>>
            /\ (~f.onConsole \/ f.pc # "done" \/ f.ret.kind # "value" \/ f.op = "ensureBrowser")
                  => (f.listener = NoPage /\ CountCalls(f, "on") = 0 /\ f.console = NoConsole)

\* C20 witness: the listener a call attached to the second page of the
\* browser has handed a console error to the callback.
C20_Witness ==
    \E t \in AllTasks :
        /\ ConnectSucceeded(fr[t])
        /\ fr[t].onConsole
        /\ fr[t].listener.i = 2
        /\ fr[t].console.type = "error"

====
